---- MODULE Spec2Model ----
(***************************************************************************)
(* Model of src/src/main.cpp (ESP32 remote monitoring firmware): setup(),   *)
(* loop(), reconectarMQTT(), callbackMQTT() and the three sensor readers.   *)
(*                                                                         *)
(* The firmware is single threaded: pc is the position of the one thread.   *)
(* A delay() is a pc position at which only the environment may move.       *)
(* The environment owns the network association (wifi), the broker session  *)
(* (connected, subscribed), the inbound messages and the sensor samples.    *)
(*                                                                         *)
(* A float is a record [nan, v]: v is the value in millionths (so that      *)
(* duration*0.0343/2 and the division by NUMERO_MUESTRAS are exact), nan    *)
(* is the IEEE not-a-number.  Rounding error of binary floats is not        *)
(* modelled.                                                               *)
(***************************************************************************)
EXTENDS Integers, Sequences, FiniteSets, TLC

(* ------------------------------------------------------------------------ *)
(* Program constants                                                        *)
(* ------------------------------------------------------------------------ *)
NUMERO_MUESTRAS == 10
TIEMPO_RECONEXION == 5000
\* delay(500) of the association poll of configurarWiFi
DELAY_WIFI == 500
\* delay(5000) of callbackMQTT
DELAY_LED == 5000

(* ------------------------------------------------------------------------ *)
(* Bounds of the model                                                      *)
(* ------------------------------------------------------------------------ *)
\* valid sensor readings start at 1..MaxReading tenths (DHT, one-wire)
MaxReading == 1
\* a stream has no invalid sample, MaxBad leading ones, or only invalid ones
MaxBad == 3
\* echo durations are multiples of 100 microseconds up to MaxEcho * 100, or 0
MaxEcho == 2
\* consecutive failed connect attempts are counted up to MaxFails
MaxFails == 2
\* the session is established at most MaxConexiones + 1 times per iteration
MaxConexiones == 1

(* ------------------------------------------------------------------------ *)
(* Channels                                                                 *)
(* ------------------------------------------------------------------------ *)
TopicoControl == "EIE_SEDE1_modbus/1/coil/0"
TopicoDistancia == "EIE_SEDE1_http/numeric"
TopicoTemp1 == "EIE_SEDE1_http/temp"
TopicoHum1 == "EIE_SEDE1_http/humidity"
TopicoTemp2 == "EIE_SEDE2_http/temp"
TopicoHum2 == "EIE_SEDE2_http/humidity"
TopicoOneWire == "EIE_SEDE1_modbus/1/holding/0"

\* the three Modbus test messages published before the five HTTP ones
MensajesDePrueba_modbus_primero ==
  << "EIE_SEDE2_modbus/1/string/8", "EIE_SEDE2_modbus/1/holding/0",
     "EIE_SEDE2_modbus/1/input/0",
     "EIE_SEDE1_http/alphanumeric", "EIE_SEDE2_http/numeric", "EIE_SEDE2_http/int",
     "EIE_SEDE2_http/boolean", "EIE_SEDE2_http/ejemploJSON" >>

\* the channels of the test messages of reconectarMQTT, in source order
MensajesDePrueba ==
  << "EIE_SEDE1_http/alphanumeric", "EIE_SEDE2_http/numeric", "EIE_SEDE2_http/int",
     "EIE_SEDE2_http/boolean", "EIE_SEDE2_http/ejemploJSON",
     "EIE_SEDE2_modbus/1/string/8", "EIE_SEDE2_modbus/1/holding/0",
     "EIE_SEDE2_modbus/1/input/0" >>

(* ------------------------------------------------------------------------ *)
(* Floats                                                                   *)
(* ------------------------------------------------------------------------ *)
NaN == [nan |-> TRUE, v |-> 0]
F(x) == [nan |-> FALSE, v |-> x]
isnan(f) == f.nan
FAdd(a, b) == IF a.nan \/ b.nan THEN NaN ELSE F(a.v + b.v)
FDiv(a, n) == IF a.nan THEN NaN ELSE F(a.v \div n)
\* a reading of t tenths
Decimas(t) == F(t * 100000)
\* sprintf("%.2f"): the text, as its value in hundredths (or "nan")
Fmt2(f) == IF f.nan THEN NaN ELSE F((f.v + 5000) \div 10000)

(* ------------------------------------------------------------------------ *)
(* C strings: sequences of bytes                                            *)
(* ------------------------------------------------------------------------ *)
S_true == <<116, 114, 117, 101>>
S_false == <<102, 97, 108, 115, 101>>

\* the payloads the broker delivers in the model
Payloads ==
  { S_true, S_false, <<>>,
    <<109, 97, 121, 98, 101>>,              \* "maybe"
    <<116, 114, 117>>,                      \* "tru"
    <<84, 82, 85, 69>>,                     \* "TRUE"
    <<116, 114, 117, 101, 32>>,             \* "true "
    <<102, 97, 108, 115, 101, 115>>,        \* "falses"
    <<116, 114, 117, 101, 0, 120>>,         \* "true" NUL "x"
    <<102, 97, 108, 115, 101, 0>>,          \* "false" NUL
    <<0, 116, 114, 117, 101>> }             \* NUL "true"

Topics == { TopicoControl, "otro/topico" }

RECURSIVE CStr(_)
\* the C string a char buffer holds: the bytes before the first NUL
CStr(buf) ==
  IF buf = <<>> \/ Head(buf) = 0 THEN <<>> ELSE <<Head(buf)>> \o CStr(Tail(buf))

\* strcmp(a, b): 0 when the two C strings are equal (the sign is not modelled)
strcmp(a, b) == IF CStr(a) = CStr(b) THEN 0 ELSE 1

\* char bufferMensaje[length + 1]; memcpy; bufferMensaje[length] = '\0'
BufferMensaje(payload) == Append(payload, 0)

EfWrite(v) == [op |-> "digitalWrite", arg |-> v, ms |-> 0]
EfDelay(ms) == [op |-> "delay", arg |-> "", ms |-> ms]
EfPrint(s) == [op |-> "println", arg |-> s, ms |-> 0]

\* callbackMQTT with the two levels exchanged (an active-low indicator)
callbackMQTT_invertido(topic, payload) ==
  IF strcmp(BufferMensaje(payload), S_true) = 0
    THEN << EfWrite("LOW"), EfPrint("LED encendido") >>
  ELSE IF strcmp(BufferMensaje(payload), S_false) = 0
    THEN << EfWrite("HIGH"), EfDelay(DELAY_LED), EfPrint("LED apagado") >>
  ELSE << EfPrint("Payload no reconocido") >>

\* callbackMQTT with the delay placed before the write of the "false" branch
callbackMQTT_espera_antes(topic, payload) ==
  IF strcmp(BufferMensaje(payload), S_true) = 0
    THEN << EfWrite("HIGH"), EfPrint("LED encendido") >>
  ELSE IF strcmp(BufferMensaje(payload), S_false) = 0
    THEN << EfDelay(DELAY_LED), EfWrite("LOW"), EfPrint("LED apagado") >>
  ELSE << EfPrint("Payload no reconocido") >>

\* callbackMQTT as the sequence of effects it performs, in program order
callbackMQTT(topic, payload) ==
  IF strcmp(BufferMensaje(payload), S_true) = 0
    THEN << EfWrite("HIGH"), EfPrint("LED encendido") >>
  ELSE IF strcmp(BufferMensaje(payload), S_false) = 0
    THEN << EfWrite("LOW"), EfDelay(DELAY_LED), EfPrint("LED apagado") >>
  ELSE << EfPrint("Payload no reconocido") >>


(* ------------------------------------------------------------------------ *)
(* Sensor inputs.  The samples a sensor delivers during one reading pass    *)
(* are fixed when the pass starts: a stream [v, k] delivers k invalid       *)
(* samples first and then the valid readings v, v+1, v, v+1, ...            *)
(* ------------------------------------------------------------------------ *)
NoStream == [v |-> 0, k |-> 0]
Streams ==
  { [v |-> r, k |-> b] : r \in 1..MaxReading, b \in {0, MaxBad} }
    \cup { [v |-> 0, k |-> NUMERO_MUESTRAS] }
EchoStreams ==
  { [v |-> r, k |-> b] : r \in 1..MaxEcho, b \in {0, MaxBad} }
    \cup { [v |-> 0, k |-> NUMERO_MUESTRAS] }

\* the j-th value readTemperature / readHumidity / getTempCByIndex returns
Muestra(s, j) == IF j <= s.k THEN NaN ELSE Decimas(s.v + (j % 2))
\* the j-th echo duration pulseIn returns, in microseconds (0: no echo)
pulseIn(s, j) == IF j <= s.k THEN 0 ELSE s.v * 100 + 7 * (j % 2)

\* the distance without the division by 2 for the round trip
Distancia_ida_y_vuelta(duracion) == F(duracion * 34300)

\* float distancia = (duracion * 0.0343) / 2;
Distancia(duracion) == FDiv(F(duracion * 34300), 2)
\* the addition without the validity test
Acumular_sin_validar(total, x) == FAdd(total, x)

\* if (!isnan(x)) total += x;
Acumular(total, x) == IF ~isnan(x) THEN FAdd(total, x) ELSE total
\* total / NUMERO_MUESTRAS
Promedio(total) == FDiv(total, NUMERO_MUESTRAS)

Ceros == [d |-> F(0), t1 |-> F(0), h1 |-> F(0), t2 |-> F(0), h2 |-> F(0), t |-> F(0)]
NoStreams ==
  [d |-> NoStream, t1 |-> NoStream, h1 |-> NoStream, t2 |-> NoStream,
   h2 |-> NoStream, t |-> NoStream]

\* the four publishes with the two channels of site 1 exchanged
PublicacionesDHT_cruzadas ==
  << [ch |-> TopicoHum1, campo |-> "t1"], [ch |-> TopicoTemp1, campo |-> "h1"],
     [ch |-> TopicoTemp2, campo |-> "t2"], [ch |-> TopicoHum2, campo |-> "h2"] >>

\* the four publishes of leerTemperaturaYHumedad, in program order
PublicacionesDHT ==
  << [ch |-> TopicoTemp1, campo |-> "t1"], [ch |-> TopicoHum1, campo |-> "h1"],
     [ch |-> TopicoTemp2, campo |-> "t2"], [ch |-> TopicoHum2, campo |-> "h2"] >>

(* ------------------------------------------------------------------------ *)
(* The broker client (PubSubClient), by its contract                        *)
(* ------------------------------------------------------------------------ *)
\* publish()/subscribe(): false when the session is down, else the send's result
PublishResults(conn) == IF conn THEN {TRUE, FALSE} ELSE {FALSE}
\* connect(): can succeed only over an associated network
ConnectResults(asociado) == IF asociado THEN {TRUE, FALSE} ELSE {FALSE}

(* ------------------------------------------------------------------------ *)
(* State                                                                    *)
(* ------------------------------------------------------------------------ *)
VARIABLES
  pc,          \* position of the single thread
  led,         \* level of PIN_LED_INDICADOR
  wifi,        \* WiFi.status() == WL_CONNECTED
  connected,   \* clienteMQTT.connected()
  subscribed,  \* the session holds the subscription to TopicoControl
  fails,       \* consecutive failed connect attempts of this reconectarMQTT call
  waited,      \* milliseconds of delay since the last connect attempt or association poll
  conexiones,  \* successful connects in this loop iteration (the last one counts all beyond MaxConexiones)
  startupDone, \* the test messages have all been published once since boot
  cb,          \* effects the running callbackMQTT has still to perform
  call,        \* the running callbackMQTT call: its arguments, the led before, ms blocked
  i,           \* loop index of the running reader
  idx,         \* index of the next publish of a publish sequence
  acc,         \* accumulators of the running reader
  stream,      \* what the sensors deliver during the running pass
  pubs,        \* publishes made by the running reader: [ch, val, ok]
  serial,      \* outcome lines the running function wrote to Serial
  trace        \* steps and carried-out broker operations of this loop iteration, in order

vars ==
  << pc, led, wifi, connected, subscribed, fails, waited, conexiones, startupDone,
     cb, call,
     i, idx, acc, stream, pubs, serial, trace >>

net == << wifi, connected, subscribed >>
rec == << fails, waited, conexiones, startupDone >>
cbv == << cb, call >>
lect == << i, idx, acc, stream, pubs, serial >>

NoCall == [topic |-> "", payload |-> <<>>, before |-> "", blocked |-> 0]
Ev(op, ch) == [op |-> op, ch |-> ch]

RecPcs == { "rec_while", "rec_connect", "rec_sub", "rec_test", "rec_backoff" }

Init ==
  /\ pc = "setup"
  /\ led = "LOW"
  /\ wifi = FALSE
  /\ connected = FALSE
  /\ subscribed = FALSE
  /\ fails = 0
  /\ waited = 0
  /\ conexiones = 0
  /\ startupDone = FALSE
  /\ cb = <<>>
  /\ call = NoCall
  /\ i = 0
  /\ idx = 0
  /\ acc = Ceros
  /\ stream = NoStreams
  /\ pubs = <<>>
  /\ serial = <<>>
  /\ trace = <<>>

(* ------------------------------------------------------------------------ *)
(* Environment                                                              *)
(* ------------------------------------------------------------------------ *)
\* The association status is read only by WiFi.status() (configurarWiFi) and
\* by connect() (reconectarMQTT): a change of it at any other position shows
\* at the next of these and is taken there.
WifiPcs == { "wifi_poll", "wifi_delay", "loop", "rec_while", "rec_connect", "rec_backoff" }

WifiUp ==
  /\ pc \in WifiPcs
  /\ ~wifi
  /\ wifi' = TRUE
  /\ UNCHANGED << pc, led, connected, subscribed, rec, cbv, lect, trace >>

WifiDown ==
  /\ pc \in WifiPcs
  /\ wifi
  /\ wifi' = FALSE
  /\ UNCHANGED << pc, led, connected, subscribed, rec, cbv, lect, trace >>

\* the session is lost (broker, transport or keep-alive)
SessionDrop ==
  /\ connected
  /\ connected' = FALSE
  /\ subscribed' = FALSE
  /\ UNCHANGED << pc, led, wifi, rec, cbv, lect, trace >>


(* ------------------------------------------------------------------------ *)
(* setup()                                                                  *)
(* ------------------------------------------------------------------------ *)
\* pinMode(...), sensors begin, then configurarWiFi: WiFi.begin(ssid, pass)
Setup ==
  /\ pc = "setup"
  /\ pc' = "wifi_poll"
  /\ led' = "LOW"
  /\ UNCHANGED << net, rec, cbv, lect, trace >>

\* the wait for the association given up after the first delay
WifiPoll_con_limite ==
  /\ pc = "wifi_poll"
  /\ pc' = IF wifi \/ waited > 0 THEN "cfg_mqtt" ELSE "wifi_delay"
  /\ waited' = 0
  /\ UNCHANGED << led, net, fails, conexiones, startupDone, cbv, lect, trace >>

\* while (WiFi.status() != WL_CONNECTED) { delay(500); ... }
WifiPoll ==
  /\ pc = "wifi_poll"
  /\ pc' = IF wifi THEN "cfg_mqtt" ELSE "wifi_delay"
  /\ waited' = 0
  /\ UNCHANGED << led, net, fails, conexiones, startupDone, cbv, lect, trace >>

WifiDelay ==
  /\ pc = "wifi_delay"
  /\ pc' = "wifi_poll"
  /\ waited' = waited + DELAY_WIFI
  /\ UNCHANGED << led, net, fails, conexiones, startupDone, cbv, lect, trace >>

\* configurarMQTT: setServer, setKeepAlive, setCallback; setup returns
ConfigurarMQTT ==
  /\ pc = "cfg_mqtt"
  /\ pc' = "loop"
  /\ UNCHANGED << led, net, rec, cbv, lect, trace >>

(* ------------------------------------------------------------------------ *)
(* loop(): the connection check, and reconectarMQTT()                       *)
(* ------------------------------------------------------------------------ *)
\* the indicator switched off by the connection check when the session is down
LoopCheck_apaga ==
  /\ pc = "loop"
  /\ pc' = IF ~connected THEN "rec_while" ELSE "pump"
  /\ led' = IF ~connected THEN "LOW" ELSE led
  /\ conexiones' = 0
  /\ fails' = 0
  /\ waited' = 0
  /\ trace' = << Ev("connected", "") >>
  /\ UNCHANGED << net, startupDone, cbv, lect >>

\* if (!clienteMQTT.connected()) reconectarMQTT();
LoopCheck ==
  /\ pc = "loop"
  /\ pc' = IF ~connected THEN "rec_while" ELSE "pump"
  /\ conexiones' = 0
  /\ fails' = 0
  /\ waited' = 0
  /\ trace' = << Ev("connected", "") >>
  /\ UNCHANGED << led, net, startupDone, cbv, lect >>

\* reconectarMQTT given up after the second failed attempt in a row
RecWhile_se_rinde ==
  /\ pc = "rec_while"
  /\ IF ~connected /\ fails < 2
       THEN /\ pc' = "rec_connect"
            /\ UNCHANGED << fails, waited >>
       ELSE /\ pc' = "pump"
            /\ fails' = 0
            /\ waited' = 0
  /\ UNCHANGED << led, net, conexiones, startupDone, cbv, lect, trace >>

\* the association started again when the session and the network are down
RecWhile_reasocia ==
  /\ pc = "rec_while"
  /\ IF ~connected
       THEN /\ pc' = IF wifi THEN "rec_connect" ELSE "wifi_poll"
            /\ UNCHANGED << fails, waited >>
       ELSE /\ pc' = "pump"
            /\ fails' = 0
            /\ waited' = 0
  /\ UNCHANGED << led, net, conexiones, startupDone, cbv, lect, trace >>

\* while (!clienteMQTT.connected()) ...; the function returns when it is false
RecWhile ==
  /\ pc = "rec_while"
  /\ IF ~connected
       THEN /\ pc' = "rec_connect"
            /\ UNCHANGED << fails, waited >>
       ELSE /\ pc' = "pump"
            /\ fails' = 0
            /\ waited' = 0
  /\ UNCHANGED << led, net, conexiones, startupDone, cbv, lect, trace >>

\* if (clienteMQTT.connect("ESP32Client", mqtt_user, mqtt_pass)) ... else ...
\* (trace keeps the first MaxConexiones rounds of an iteration and the latest one)
RecConnect ==
  /\ pc = "rec_connect"
  /\ \E ok \in ConnectResults(wifi) :
       IF ok
         THEN /\ connected' = TRUE
              /\ fails' = 0
              /\ IF conexiones <= MaxConexiones
                   THEN /\ conexiones' = conexiones + 1
                        /\ trace' = Append(trace, Ev("connect", ""))
                   ELSE /\ conexiones' = conexiones
                        /\ trace' = SubSeq(trace, 1, Len(trace) - Len(MensajesDePrueba) - 1)
              /\ pc' = "rec_sub"
         ELSE /\ fails' = IF fails < MaxFails THEN fails + 1 ELSE MaxFails
              /\ pc' = "rec_backoff"
              /\ UNCHANGED << connected, conexiones, trace >>
  /\ waited' = 0
  /\ UNCHANGED << led, wifi, subscribed, startupDone, cbv, lect >>

\* the backoff skipped from the second consecutive failure on
RecBackoff_sin_espera ==
  /\ pc = "rec_backoff"
  /\ waited' = IF fails < 2 THEN waited + TIEMPO_RECONEXION ELSE waited
  /\ pc' = "rec_while"
  /\ UNCHANGED << led, net, fails, conexiones, startupDone, cbv, lect, trace >>

\* delay(TIEMPO_RECONEXION);
RecBackoff ==
  /\ pc = "rec_backoff"
  /\ waited' = waited + TIEMPO_RECONEXION
  /\ pc' = "rec_while"
  /\ UNCHANGED << led, net, fails, conexiones, startupDone, cbv, lect, trace >>

\* if (clienteMQTT.subscribe("EIE_SEDE1_modbus/1/coil/0")) println(...)
RecSubscribe ==
  /\ pc = "rec_sub"
  /\ \E ok \in PublishResults(connected) :
       /\ subscribed' = ok
       /\ serial' = IF ok THEN << "Suscrito a topico de control" >> ELSE <<>>
  /\ trace' = Append(trace, Ev("subscribe", TopicoControl))
  /\ idx' = 1
  /\ pc' = "rec_test"
  /\ UNCHANGED << led, wifi, connected, rec, cbv, i, acc, stream, pubs >>

\* the test messages published only the first time after boot
RecTest_solo_inicio ==
  /\ pc = "rec_test"
  /\ trace' = IF startupDone THEN trace
              ELSE Append(trace, Ev("publish", MensajesDePrueba[idx]))
  /\ IF idx < Len(MensajesDePrueba)
       THEN /\ idx' = idx + 1
            /\ UNCHANGED << pc, serial >>
       ELSE /\ idx' = 0
            /\ serial' = <<>>
            /\ pc' = "rec_while"
  /\ startupDone' = (startupDone \/ idx = Len(MensajesDePrueba))
  /\ UNCHANGED << led, net, fails, waited, conexiones, cbv, i, acc, stream, pubs >>

\* the eight clienteMQTT.publish(...) of the test messages, results unused
RecTest ==
  /\ pc = "rec_test"
  /\ trace' = Append(trace, Ev("publish", MensajesDePrueba[idx]))
  /\ IF idx < Len(MensajesDePrueba)
       THEN /\ idx' = idx + 1
            /\ UNCHANGED << pc, serial >>
       ELSE /\ idx' = 0
            /\ serial' = <<>>
            /\ pc' = "rec_while"
  /\ startupDone' = (startupDone \/ idx = Len(MensajesDePrueba))
  /\ UNCHANGED << led, net, fails, waited, conexiones, cbv, i, acc, stream, pubs >>

(* ------------------------------------------------------------------------ *)
(* clienteMQTT.loop() and callbackMQTT                                      *)
(* ------------------------------------------------------------------------ *)
\* the iteration abandoned after the pump when the session is down
Pump_sale_sin_sesion ==
  /\ pc = "pump"
  /\ \/ /\ connected /\ subscribed
        /\ \E t \in Topics, p \in Payloads :
             /\ cb' = callbackMQTT(t, p)
             /\ call' = [topic |-> t, payload |-> p, before |-> led, blocked |-> 0]
        /\ pc' = "callback"
     \/ /\ pc' = IF connected THEN "dist" ELSE "loop"
        /\ UNCHANGED cbv
  /\ trace' = Append(trace, Ev("loop", ""))
  /\ UNCHANGED << led, net, rec, lect >>

\* clienteMQTT.loop(): hands one buffered message, if any, to the callback
Pump ==
  /\ pc = "pump"
  /\ \/ /\ connected /\ subscribed
        /\ \E t \in Topics, p \in Payloads :
             /\ cb' = callbackMQTT(t, p)
             /\ call' = [topic |-> t, payload |-> p, before |-> led, blocked |-> 0]
        /\ pc' = "callback"
     \/ /\ pc' = "dist"
        /\ UNCHANGED cbv
  /\ trace' = Append(trace, Ev("loop", ""))
  /\ UNCHANGED << led, net, rec, lect >>

\* the next statement of callbackMQTT
CbStep ==
  /\ pc = "callback"
  /\ cb # <<>>
  /\ LET e == Head(cb) IN
       /\ led' = IF e.op = "digitalWrite" THEN e.arg ELSE led
       /\ serial' = IF e.op = "println" THEN Append(serial, e.arg) ELSE serial
       /\ IF e.op = "delay"
            THEN pc' = "cb_delay" /\ cb' = cb
            ELSE pc' = pc /\ cb' = Tail(cb)
  /\ UNCHANGED << net, rec, call, i, idx, acc, stream, pubs, trace >>

\* the delay(5000) of callbackMQTT ends
CbWake ==
  /\ pc = "cb_delay"
  /\ call' = [call EXCEPT !.blocked = @ + Head(cb).ms]
  /\ cb' = Tail(cb)
  /\ pc' = "callback"
  /\ UNCHANGED << led, net, rec, lect, trace >>

\* callbackMQTT returns, and so does clienteMQTT.loop()
CbReturn ==
  /\ pc = "callback"
  /\ cb = <<>>
  /\ call' = NoCall
  /\ serial' = <<>>
  /\ pc' = "dist"
  /\ UNCHANGED << led, net, rec, cb, i, idx, acc, stream, pubs, trace >>


(* ------------------------------------------------------------------------ *)
(* leerDistanciaYPublicar()                                                 *)
(* ------------------------------------------------------------------------ *)
\* float distanciaTotal = 0.0; the pass's echo durations are fixed here
DistBeginDe(ecos) ==
  /\ pc = "dist"
  /\ \E s \in ecos : stream' = [NoStreams EXCEPT !.d = s]
  /\ acc' = Ceros
  /\ i' = 0
  /\ pubs' = <<>>
  /\ serial' = <<>>
  /\ trace' = Append(trace, Ev("leer", "distancia"))
  /\ pc' = "dist_sample"
  /\ UNCHANGED << led, net, rec, cbv, idx >>

DistBegin == DistBeginDe(EchoStreams)

\* one iteration of the sampling loop: trigger pulse, pulseIn, add, delay(50)
DistSample ==
  /\ pc = "dist_sample"
  /\ i < NUMERO_MUESTRAS
  /\ acc' = [acc EXCEPT !.d = FAdd(@, Distancia(pulseIn(stream.d, i + 1)))]
  /\ i' = i + 1
  /\ UNCHANGED << pc, led, net, rec, cbv, idx, stream, pubs, serial, trace >>

\* the distance publish followed by a reconnect when it failed
DistPublish_reconecta ==
  /\ pc = "dist_sample"
  /\ i = NUMERO_MUESTRAS
  /\ \E ok \in PublishResults(connected) :
       /\ pubs' = Append(pubs, [ch |-> TopicoDistancia,
                                val |-> Fmt2(Promedio(acc.d)), ok |-> ok])
       /\ serial' = Append(serial, IF ok THEN "Distancia publicada"
                                         ELSE "Error publicando distancia")
       /\ pc' = IF ok THEN "dist_ret" ELSE "rec_while"
  /\ trace' = Append(trace, Ev("publish", TopicoDistancia))
  /\ UNCHANGED << led, net, rec, cbv, i, idx, acc, stream >>

\* the average, sprintf("%.2f"), publish and the line describing its outcome
DistPublish ==
  /\ pc = "dist_sample"
  /\ i = NUMERO_MUESTRAS
  /\ \E ok \in PublishResults(connected) :
       /\ pubs' = Append(pubs, [ch |-> TopicoDistancia,
                                val |-> Fmt2(Promedio(acc.d)), ok |-> ok])
       /\ serial' = Append(serial, IF ok THEN "Distancia publicada"
                                         ELSE "Error publicando distancia")
  /\ trace' = Append(trace, Ev("publish", TopicoDistancia))
  /\ pc' = "dist_ret"
  /\ UNCHANGED << led, net, rec, cbv, i, idx, acc, stream >>

\* the reader returns: its locals are gone
ReaderReturn(from, to) ==
  /\ pc = from
  /\ pc' = to
  /\ i' = 0
  /\ idx' = 0
  /\ acc' = Ceros
  /\ stream' = NoStreams
  /\ pubs' = <<>>
  /\ serial' = <<>>
  /\ UNCHANGED << led, net, rec, cbv, trace >>

\* a delay(DELAY_ENTRE_SENSORES) of loop() ends
LoopDelay(from, to) ==
  /\ pc = from
  /\ pc' = to
  /\ UNCHANGED << led, net, rec, cbv, lect, trace >>

DistReturn == ReaderReturn("dist_ret", "delay1")
Delay1 == LoopDelay("delay1", "dht")

(* ------------------------------------------------------------------------ *)
(* leerTemperaturaYHumedad()                                                *)
(* ------------------------------------------------------------------------ *)
DhtBeginDe(lecturas) ==
  /\ pc = "dht"
  /\ \E s1, s2, s3, s4 \in lecturas :
       stream' = [NoStreams EXCEPT !.t1 = s1, !.h1 = s2, !.t2 = s3, !.h2 = s4]
  /\ acc' = Ceros
  /\ i' = 0
  /\ pubs' = <<>>
  /\ serial' = <<>>
  /\ trace' = Append(trace, Ev("leer", "dht"))
  /\ pc' = "dht_sample"
  /\ UNCHANGED << led, net, rec, cbv, idx >>

DhtBegin == DhtBeginDe(Streams)

\* one iteration: delay(50), the four reads, the four guarded additions
DhtSample ==
  /\ pc = "dht_sample"
  /\ i < NUMERO_MUESTRAS
  /\ LET humedad1 == Muestra(stream.h1, i + 1)
         temperatura1 == Muestra(stream.t1, i + 1)
         humedad2 == Muestra(stream.h2, i + 1)
         temperatura2 == Muestra(stream.t2, i + 1)
     IN acc' = [acc EXCEPT !.h1 = Acumular(@, humedad1),
                           !.t1 = Acumular(@, temperatura1),
                           !.h2 = Acumular(@, humedad2),
                           !.t2 = Acumular(@, temperatura2)]
  /\ i' = i + 1
  /\ UNCHANGED << pc, led, net, rec, cbv, idx, stream, pubs, serial, trace >>

\* the sampling loop is over: the four averages are computed
DhtAverages ==
  /\ pc = "dht_sample"
  /\ i = NUMERO_MUESTRAS
  /\ idx' = 1
  /\ pc' = "dht_pub"
  /\ UNCHANGED << led, net, rec, cbv, i, acc, stream, pubs, serial, trace >>

\* the DHT publish repeated until it succeeds
DhtPublish_reintenta ==
  /\ pc = "dht_pub"
  /\ idx <= Len(PublicacionesDHT)
  /\ LET p == PublicacionesDHT[idx] IN
       /\ \E ok \in PublishResults(connected) :
            /\ pubs' = Append(pubs, [ch |-> p.ch,
                                     val |-> Fmt2(Promedio(acc[p.campo])), ok |-> ok])
            /\ idx' = IF ok THEN idx + 1 ELSE idx
       /\ trace' = Append(trace, Ev("publish", p.ch))
  /\ UNCHANGED << pc, led, net, rec, cbv, i, acc, stream, serial >>

\* sprintf(bufferDatos, "%.2f", ...); clienteMQTT.publish(...): result unused
DhtPublish ==
  /\ pc = "dht_pub"
  /\ idx <= Len(PublicacionesDHT)
  /\ LET p == PublicacionesDHT[idx] IN
       /\ \E ok \in PublishResults(connected) :
            pubs' = Append(pubs, [ch |-> p.ch,
                                  val |-> Fmt2(Promedio(acc[p.campo])), ok |-> ok])
       /\ trace' = Append(trace, Ev("publish", p.ch))
  /\ idx' = idx + 1
  /\ UNCHANGED << pc, led, net, rec, cbv, i, acc, stream, serial >>

\* Serial.println("-> Datos DHT publicados:") and the two summary lines
DhtPrint ==
  /\ pc = "dht_pub"
  /\ idx > Len(PublicacionesDHT)
  /\ serial' = Append(serial, "Datos DHT publicados")
  /\ pc' = "dht_ret"
  /\ UNCHANGED << led, net, rec, cbv, i, idx, acc, stream, pubs, trace >>

DhtReturn == ReaderReturn("dht_ret", "delay2")
Delay2 == LoopDelay("delay2", "ow")

(* ------------------------------------------------------------------------ *)
(* leerTemperaturaOneWire()                                                 *)
(* ------------------------------------------------------------------------ *)
OwBeginDe(lecturas) ==
  /\ pc = "ow"
  /\ \E s \in lecturas : stream' = [NoStreams EXCEPT !.t = s]
  /\ acc' = Ceros
  /\ i' = 0
  /\ pubs' = <<>>
  /\ serial' = <<>>
  /\ trace' = Append(trace, Ev("leer", "onewire"))
  /\ pc' = "ow_sample"
  /\ UNCHANGED << led, net, rec, cbv, idx >>

OwBegin == OwBeginDe(Streams)

\* the sampling loop started at the second sample
OwSample_sin_primera ==
  /\ pc = "ow_sample"
  /\ i < NUMERO_MUESTRAS
  /\ acc' = IF i = 0 THEN acc
            ELSE [acc EXCEPT !.t = Acumular(@, Muestra(stream.t, i + 1))]
  /\ i' = i + 1
  /\ UNCHANGED << pc, led, net, rec, cbv, idx, stream, pubs, serial, trace >>

\* requestTemperatures, getTempCByIndex(0), guarded addition, delay(50)
OwSample ==
  /\ pc = "ow_sample"
  /\ i < NUMERO_MUESTRAS
  /\ acc' = [acc EXCEPT !.t = Acumular(@, Muestra(stream.t, i + 1))]
  /\ i' = i + 1
  /\ UNCHANGED << pc, led, net, rec, cbv, idx, stream, pubs, serial, trace >>

OwPublish ==
  /\ pc = "ow_sample"
  /\ i = NUMERO_MUESTRAS
  /\ \E ok \in PublishResults(connected) :
       /\ pubs' = Append(pubs, [ch |-> TopicoOneWire,
                                val |-> Fmt2(Promedio(acc.t)), ok |-> ok])
       /\ serial' = Append(serial, IF ok THEN "Temperatura OneWire publicada"
                                         ELSE "Error publicando temperatura OneWire")
  /\ trace' = Append(trace, Ev("publish", TopicoOneWire))
  /\ pc' = "ow_ret"
  /\ UNCHANGED << led, net, rec, cbv, i, idx, acc, stream >>

OwReturn == ReaderReturn("ow_ret", "delay3")
Delay3 == LoopDelay("delay3", "delay4")
\* the last delay ends and loop() returns; the runtime calls it again
Delay4 == LoopDelay("delay4", "loop")

(* ------------------------------------------------------------------------ *)
(* Specification                                                            *)
(* ------------------------------------------------------------------------ *)
\* the steps of the one thread of the program, the sensors delivering one
\* of the given streams in each pass
ProgramaDe(ecos, lecturas) ==
  \/ Setup \/ WifiPoll \/ WifiDelay \/ ConfigurarMQTT
  \/ LoopCheck \/ RecWhile \/ RecConnect \/ RecBackoff \/ RecSubscribe \/ RecTest
  \/ Pump \/ CbStep \/ CbWake \/ CbReturn
  \/ DistBeginDe(ecos) \/ DistSample \/ DistPublish \/ DistReturn \/ Delay1
  \/ DhtBeginDe(lecturas) \/ DhtSample \/ DhtAverages \/ DhtPublish \/ DhtPrint
  \/ DhtReturn \/ Delay2
  \/ OwBeginDe(lecturas) \/ OwSample \/ OwPublish \/ OwReturn \/ Delay3 \/ Delay4

Programa == ProgramaDe(EchoStreams, Streams)

\* the steps of the network, the broker and the transport
Entorno == WifiUp \/ WifiDown \/ SessionDrop

Next == Entorno \/ Programa

Spec == Init /\ [][Next]_vars

\* No branch of the program but the validity test of a sample depends on a
\* sample's value: for the progress of the thread it is enough that the DHT
\* and one-wire sensors deliver valid readings and that the echo is there
\* throughout or missing at first.
EcosDeProgreso == { s \in EchoStreams : s.v = 1 }
LecturasDeProgreso == { s \in Streams : s.v = 1 /\ s.k = 0 }
ProgramaVivo == ProgramaDe(EcosDeProgreso, LecturasDeProgreso)
NextVivo == Entorno \/ ProgramaVivo

\* The thread never stops: the processor runs the next statement, every
\* delay() ends, pulseIn() has a timeout and the sensor libraries return.
FairSpec == Init /\ [][NextVivo]_vars /\ WF_vars(ProgramaVivo)


(* ------------------------------------------------------------------------ *)
(* Properties                                                               *)
(* ------------------------------------------------------------------------ *)
\* callbackMQTT has performed its last statement and is about to return
CbDone == pc = "callback" /\ cb = <<>>

\* C1: a payload of exactly "true" leaves the indicator HIGH and blocks for
\* 0 ms; a payload of exactly "false" leaves it LOW; whatever the indicator
\* was before and whatever the topic.
C1_TrueFalse ==
  /\ CbDone /\ call.payload = S_true => led = "HIGH" /\ call.blocked = 0
  /\ CbDone /\ call.payload = S_false => led = "LOW"
  /\ pc = "cb_delay" => call.payload # S_true

C1_Witness ==
  /\ CbDone
  /\ call.payload = S_true
  /\ call.topic # TopicoControl
  /\ call.before = "LOW"
  /\ led = "HIGH"

\* C2 (as claimed): a payload whose bytes are not exactly "true" or "false"
\* leaves the indicator as it was and blocks for 0 ms.
C2_OtherPayloadNoEffect ==
  CbDone /\ call.payload \notin {S_true, S_false}
    => led = call.before /\ call.blocked = 0

\* C3: while callbackMQTT blocks for "false" the indicator is already LOW
\* and the block is 5000 ms long; no step taken during the block changes
\* anything but the session status (no connection check, no connect, no
\* pump, no sampling, no publish: the indicator stays LOW); and the block
\* ends inside the call, which returns having blocked 5000 ms.
C3_DuringBlock ==
  pc = "cb_delay" => led = "LOW" /\ Head(cb).ms = 5000 /\ call.blocked = 0

C3_StepDuringBlock ==
  pc = "cb_delay" =>
    /\ UNCHANGED << led, wifi, rec, lect, trace >>
    /\ \/ pc' = "cb_delay" /\ UNCHANGED cbv
       \/ pc' = "callback" /\ call'.blocked = 5000 /\ cb' # <<>> /\ UNCHANGED net

C3_Blocking ==
  /\ [](C3_DuringBlock)
  /\ [][C3_StepDuringBlock]_vars
  /\ [](CbDone /\ call.payload = S_false => call.blocked = 5000)

\* the session is lost during the block, and the program does not move
C3_Witness ==
  /\ pc = "cb_delay"
  /\ call.before = "HIGH"
  /\ led = "LOW"
  /\ ~connected

\* C4: in reconectarMQTT a failed connect is followed by the backoff and a
\* new attempt, however many attempts have failed; when an attempt follows
\* a failed one, exactly TIEMPO_RECONEXION ms of delay lie between them.
C4_StepRetry ==
  /\ pc = "rec_connect" /\ pc' # pc => pc' \in {"rec_sub", "rec_backoff"}
  /\ pc = "rec_connect" /\ pc' = "rec_backoff" => fails' >= 1 /\ waited' = 0
  /\ pc = "rec_backoff" /\ pc' # pc => pc' = "rec_while"
  /\ pc = "rec_while" /\ pc' # pc /\ ~connected => pc' = "rec_connect"

C4_RetryForever ==
  /\ [](pc = "rec_connect" /\ fails > 0 => waited = TIEMPO_RECONEXION)
  /\ [](pc = "rec_while" /\ fails > 0 => waited = TIEMPO_RECONEXION /\ ~connected)
  /\ [](pc = "rec_backoff" => waited = 0 /\ fails > 0)
  /\ [][C4_StepRetry]_vars

\* a further attempt after MaxFails consecutive failures
C4_Witness ==
  /\ pc = "rec_connect"
  /\ fails = MaxFails
  /\ waited = TIEMPO_RECONEXION


(* ------------------------------------------------------------------------ *)
(* What a pass should publish, computed from the samples themselves         *)
(* ------------------------------------------------------------------------ *)
RECURSIVE SumaValidas(_, _)
\* the sum, in millionths, of the valid ones among the first n samples
SumaValidas(s, n) ==
  IF n = 0 THEN 0
  ELSE SumaValidas(s, n - 1) + (IF Muestra(s, n).nan THEN 0 ELSE Muestra(s, n).v)

Invalidas(s) == Cardinality({ j \in 1..NUMERO_MUESTRAS : Muestra(s, j).nan })

RECURSIVE SumaEcos(_, _)
\* the sum of the first n echo durations, in microseconds
SumaEcos(s, n) == IF n = 0 THEN 0 ELSE SumaEcos(s, n - 1) + pulseIn(s, n)

\* a value in millionths as the two-decimal text, in hundredths
Centesimas(m) == F((m + 5000) \div 10000)

\* sum(valid) / N, for every stream (computed once)
TablaMediaSobreN ==
  [ s \in Streams |->
      Centesimas(SumaValidas(s, NUMERO_MUESTRAS) \div NUMERO_MUESTRAS) ]
MediaSobreN(s) == TablaMediaSobreN[s]
\* sum(valid) / (N - k), for a stream with a valid sample
MediaSobreValidas(s) ==
  Centesimas(SumaValidas(s, NUMERO_MUESTRAS) \div (NUMERO_MUESTRAS - Invalidas(s)))
\* mean of duration * 0.0343 / 2, for every echo stream (computed once)
TablaMediaDistancia ==
  [ s \in EchoStreams |->
      Centesimas(((SumaEcos(s, NUMERO_MUESTRAS) * 343 * 100) \div 2)
                   \div NUMERO_MUESTRAS) ]
MediaDistancia(s) == TablaMediaDistancia[s]

IsPublish(e) == e.op = "publish"
Canales(seq) == [ j \in 1..Len(seq) |-> seq[j].ch ]
\* the channels published to after the pump call of this iteration, in order
Periodicas ==
  IF \E j \in 1..Len(trace) : trace[j].op = "loop"
    THEN LET p == CHOOSE j \in 1..Len(trace) : trace[j].op = "loop"
         IN Canales(SelectSeq(SubSeq(trace, p + 1, Len(trace)), IsPublish))
    ELSE <<>>

SeisCanales ==
  << TopicoDistancia, TopicoTemp1, TopicoHum1, TopicoTemp2, TopicoHum2, TopicoOneWire >>

\* C5: each DHT average and the one-wire average passed to publish is
\* sum(valid samples) / N: an invalid sample adds 0 and is still counted.
C5_AverageOverN ==
  /\ pc \in {"dht_pub", "dht_ret"} =>
       \A j \in 1..Len(pubs) :
         pubs[j].val = MediaSobreN(stream[PublicacionesDHT[j].campo])
  /\ pc = "ow_ret" => Len(pubs) = 1 /\ pubs[1].val = MediaSobreN(stream.t)
  /\ pc \in {"dht_pub", "dht_ret"} /\ stream.h2.k = NUMERO_MUESTRAS /\ Len(pubs) = 4
       => pubs[4].val = F(0)

\* a pass with 3 invalid samples of probe 1's temperature, with no invalid
\* sample of its humidity and with only invalid ones of probe 2's humidity
C5_Witness ==
  /\ pc = "dht_ret"
  /\ Invalidas(stream.t1) = 3
  /\ pubs[1].val = MediaSobreN(stream.t1)
  /\ pubs[1].val # MediaSobreValidas(stream.t1)
  /\ Invalidas(stream.h1) = 0
  /\ pubs[2].val.v = 15
  /\ Invalidas(stream.h2) = NUMERO_MUESTRAS
  /\ pubs[4].val = F(0)

\* C6: leerDistanciaYPublicar passes exactly one value to publish, on
\* EIE_SEDE1_http/numeric: the mean of duration * 0.0343 / 2 over all ten
\* samples (zero durations included), with two decimals.
C6_DistanceMean ==
  pc = "dist_ret" =>
    /\ Len(pubs) = 1
    /\ pubs[1].ch = "EIE_SEDE1_http/numeric"
    /\ pubs[1].val = MediaDistancia(stream.d)

\* three echoes are missing (duration 0) and the other seven last 100, 107,
\* 100, ... microseconds: 721 * 0.01715 / 10 = 1.2365 cm, published as 1.24
C6_Witness ==
  /\ pc = "dist_ret"
  /\ stream.d = [v |-> 1, k |-> 3]
  /\ pubs[1].val.v = 124

\* C7: an iteration publishes, after the pump call, to the six channels in
\* the order distance, temp 1, humidity 1, temp 2, humidity 2, one-wire, each
\* with the average of its own stream; when no reconnect took place these
\* are all the publishes of the iteration.
C7_SixPublishes ==
  /\ pc \in {"dist_ret", "delay1", "dht"} => Periodicas = SubSeq(SeisCanales, 1, 1)
  /\ pc \in {"dht_ret", "delay2", "ow"} => Periodicas = SubSeq(SeisCanales, 1, 5)
  /\ pc \in {"ow_ret", "delay3", "delay4"} => Periodicas = SeisCanales
  /\ pc \in {"ow_ret", "delay3", "delay4"} /\ conexiones = 0
       => Canales(SelectSeq(trace, IsPublish)) = SeisCanales
  /\ pc = "dist_ret" =>
       pubs = << [ch |-> "EIE_SEDE1_http/numeric", val |-> MediaDistancia(stream.d),
                  ok |-> pubs[1].ok] >>
  /\ pc = "dht_ret" =>
       /\ Canales(pubs) = << "EIE_SEDE1_http/temp", "EIE_SEDE1_http/humidity",
                             "EIE_SEDE2_http/temp", "EIE_SEDE2_http/humidity" >>
       /\ pubs[1].val = MediaSobreN(stream.t1)
       /\ pubs[2].val = MediaSobreN(stream.h1)
       /\ pubs[3].val = MediaSobreN(stream.t2)
       /\ pubs[4].val = MediaSobreN(stream.h2)
  /\ pc = "ow_ret" =>
       pubs = << [ch |-> "EIE_SEDE1_modbus/1/holding/0", val |-> MediaSobreN(stream.t),
                  ok |-> pubs[1].ok] >>

\* the end of an iteration without reconnect, the last publish accepted
C7_Witness ==
  /\ pc = "ow_ret"
  /\ conexiones = 0
  /\ connected
  /\ pubs[1].ok
  /\ Len(trace) = 11

ReaderPcs ==
  { "dist", "dist_sample", "dist_ret", "delay1", "dht", "dht_sample", "dht_pub",
    "dht_ret", "delay2", "ow", "ow_sample", "ow_ret", "delay3", "delay4" }

\* C8: a publish made while the session is down fails, and the step that
\* makes it neither connects nor leaves the reader; the sensor steps never
\* enter reconectarMQTT, which is entered from the connection check only;
\* and the iteration still makes its six publishes.
C8_StepNoReconnect ==
  /\ Len(pubs') > Len(pubs) /\ ~connected =>
       /\ ~pubs'[Len(pubs')].ok
       /\ UNCHANGED << net, rec >>
       /\ pc' \in {"dist_ret", "dht_pub", "ow_ret"}
  /\ pc \in ReaderPcs /\ pc # "delay4" => pc' \in ReaderPcs
  /\ pc' \in RecPcs /\ pc \notin RecPcs => pc = "loop" /\ ~connected

C8_PublishWhileDown ==
  /\ [][C8_StepNoReconnect]_vars
  /\ [](pc \in {"ow_ret", "delay3", "delay4"} => Periodicas = SeisCanales)

\* the session was up at the connection check and is down at the last publish
C8_Witness ==
  /\ pc = "ow_ret"
  /\ conexiones = 0
  /\ ~connected
  /\ ~pubs[1].ok
  /\ Periodicas = SeisCanales

\* C9: no reading is passed to publish twice: a pass publishes to each of its
\* channels once, a publish that failed is followed by the next statement, the
\* accumulators start from zero in the next pass, and an iteration publishes
\* once to each of the six channels.
C9_StepNoRetry ==
  /\ Len(pubs') > Len(pubs) =>
       /\ Len(pubs') = Len(pubs) + 1
       /\ pc' = IF pc = "dist_sample" THEN "dist_ret"
                ELSE IF pc = "ow_sample" THEN "ow_ret" ELSE "dht_pub"
       /\ pc = "dht_pub" => idx' = idx + 1
  /\ pc' \in {"dist_sample", "dht_sample", "ow_sample"} /\ pc' # pc =>
       acc' = Ceros /\ pubs' = <<>> /\ i' = 0

C9_NoRetry ==
  /\ [](\A j, k \in 1..Len(pubs) : pubs[j].ch = pubs[k].ch => j = k)
  /\ [](pc = "dist_ret" \/ pc = "ow_ret" => Len(pubs) = 1)
  /\ [](pc = "dht_ret" => Len(pubs) = 4)
  /\ [](pc = "delay4" => Periodicas = SeisCanales)
  /\ [][C9_StepNoRetry]_vars

\* the first DHT publish failed, the other three were made all the same
C9_Witness ==
  /\ pc = "dht_ret"
  /\ Len(pubs) = 4
  /\ ~pubs[1].ok
  /\ pubs[4].ok

\* the running function wrote this line to Serial
Escribio(linea) == \E j \in 1..Len(serial) : serial[j] = linea

\* C10 (as claimed): every reader's Serial line describes the outcome of its
\* publishes: after a failed publish a failure line is written, and a success
\* line is written only when the publishes succeeded.
C10_DiagnosticMatchesOutcome ==
  /\ pc = "dist_ret" =>
       IF pubs[1].ok THEN serial = << "Distancia publicada" >>
       ELSE serial = << "Error publicando distancia" >>
  /\ pc = "ow_ret" =>
       IF pubs[1].ok THEN serial = << "Temperatura OneWire publicada" >>
       ELSE serial = << "Error publicando temperatura OneWire" >>
  /\ pc = "dht_ret" =>
       /\ Escribio("Datos DHT publicados") => \A j \in 1..Len(pubs) : pubs[j].ok
       /\ (\E j \in 1..Len(pubs) : ~pubs[j].ok) => ~Escribio("Datos DHT publicados")

\* what follows a successful connect: the subscribe request, then the five
\* HTTP and the three Modbus test publishes
RondaEsperada ==
  << Ev("subscribe", "EIE_SEDE1_modbus/1/coil/0"),
     Ev("publish", "EIE_SEDE1_http/alphanumeric"),
     Ev("publish", "EIE_SEDE2_http/numeric"),
     Ev("publish", "EIE_SEDE2_http/int"),
     Ev("publish", "EIE_SEDE2_http/boolean"),
     Ev("publish", "EIE_SEDE2_http/ejemploJSON"),
     Ev("publish", "EIE_SEDE2_modbus/1/string/8"),
     Ev("publish", "EIE_SEDE2_modbus/1/holding/0"),
     Ev("publish", "EIE_SEDE2_modbus/1/input/0") >>

\* the positions of the pump call
PumpPcs == {"pump", "callback", "cb_delay"}

\* the event is a step of loop() after reconectarMQTT: the pump or a reader
EsPaso(e) == e.op \in {"loop", "leer"} \/ (e.op = "publish" /\ \E j \in 1..Len(SeisCanales) : e.ch = SeisCanales[j])

\* C11: every successful connect is followed by the subscribe request to the
\* control channel and then by the eight test publishes, five HTTP and three
\* Modbus, in source order; the round is complete when reconectarMQTT is left,
\* and it comes before the pump and before any sensor is sampled or published.
C11_Rondas ==
  /\ \A p \in 1..Len(trace) : trace[p].op = "connect" =>
       /\ \A q \in 1..Len(RondaEsperada) :
            p + q <= Len(trace) => trace[p + q] = RondaEsperada[q]
       /\ pc \notin {"rec_sub", "rec_test"} => p + Len(RondaEsperada) <= Len(trace)
  /\ \A q \in 1..Len(trace) : ~EsPaso(trace[q])
  /\ pc = "rec_sub" => trace[Len(trace)].op = "connect"
  /\ pc = "rec_test" => trace[Len(trace) - idx].op = "connect"
  /\ pubs = <<>> /\ stream = NoStreams /\ acc = Ceros

\* from the pump call on, the record only grows, by steps of loop()
C11_StepDespues ==
  pc \in PumpPcs \cup ReaderPcs /\ trace' # trace =>
    /\ Len(trace') = Len(trace) + 1
    /\ SubSeq(trace', 1, Len(trace)) = trace
    /\ EsPaso(trace'[Len(trace')])

C11_RoundAfterConnect ==
  /\ [](pc \in RecPcs \cup {"pump"} => C11_Rondas)
  /\ [][C11_StepDespues]_vars

\* reconectarMQTT has returned after one successful connect and a full round
C11_Witness ==
  /\ pc = "pump"
  /\ conexiones = 1
  /\ Len(trace) = 11
  /\ trace[2].op = "connect"
  /\ trace[11] = Ev("publish", "EIE_SEDE2_modbus/1/input/0")

\* the event is the publish of a test message
EsDePrueba(e) ==
  \E j \in 2..Len(RondaEsperada) : e = RondaEsperada[j]
\* how many times the event is in the record of this iteration
Cuenta(e) == Cardinality({ p \in 1..Len(trace) : trace[p] = e })
\* the step publishes a test message
PublicaPrueba ==
  Len(trace') = Len(trace) + 1 /\ EsDePrueba(trace'[Len(trace')])

\* C12 (as claimed): the test messages are published at startup only: once
\* all of them have been published, none is published again.
C12_StartupOnly == [][PublicaPrueba => ~startupDone]_vars

\* C12 (amended): each test message is published once per successful connect,
\* at startup and at every later connect alike; only reconectarMQTT publishes
\* them; and the pump and the readers run only after the first round.
C12_OncePerConnect ==
  /\ [](pc \notin {"rec_sub", "rec_test"} =>
         \A j \in 2..Len(RondaEsperada) : Cuenta(RondaEsperada[j]) = conexiones)
  /\ [][PublicaPrueba => pc = "rec_test" /\ connected' = connected]_vars
  /\ [](pc \in ReaderPcs \cup {"pump", "callback", "cb_delay"} => startupDone)

\* the last test message is about to be published again, in a later iteration
C12_Witness ==
  /\ startupDone
  /\ pc = "rec_test"
  /\ idx = Len(RondaEsperada) - 1
  /\ conexiones = 1
  /\ Cuenta(RondaEsperada[2]) = 1

\* the positions of each reader and of the delay after it
DistPcs == {"dist", "dist_sample", "dist_ret", "delay1"}
DhtPcs == {"dht", "dht_sample", "dht_pub", "dht_ret", "delay2"}
OwPcs == {"ow", "ow_sample", "ow_ret", "delay3", "delay4"}
\* a step of loop() that is recorded once when it begins
EsEtapa(e) == e.op \in {"connected", "connect", "loop", "leer"}

\* C13: an iteration is the connection check, reconectarMQTT exactly when
\* the check found the session down, one pump call, the distance reader, the
\* DHT reader and the one-wire reader, in this order: each step is followed
\* by the next one whatever the session status, the publish results and the
\* command handled, and at the end of the iteration each was made once.
C13_StepOrder ==
  /\ pc = "loop" /\ pc' # pc => pc' = IF connected THEN "pump" ELSE "rec_while"
  /\ pc \in RecPcs /\ pc' \notin RecPcs => pc' = "pump"
  /\ pc = "pump" /\ pc' # pc => pc' \in {"callback", "dist"}
  /\ pc \in PumpPcs /\ pc' \notin PumpPcs => pc' = "dist"
  /\ pc \in DistPcs /\ pc' \notin DistPcs => pc' = "dht"
  /\ pc \in DhtPcs /\ pc' \notin DhtPcs => pc' = "ow"
  /\ pc \in OwPcs /\ pc' \notin OwPcs => pc' = "loop"

C13_FixedOrder ==
  /\ [][C13_StepOrder]_vars
  /\ [](pc = "delay4" =>
         SelectSeq(trace, EsEtapa) =
           << Ev("connected", "") >>
             \o [ j \in 1..conexiones |-> Ev("connect", "") ]
             \o << Ev("loop", ""), Ev("leer", "distancia"), Ev("leer", "dht"),
                   Ev("leer", "onewire") >>)

\* the end of an iteration that reconnected, lost the session again and made
\* its last publish without it
C13_Witness ==
  /\ pc = "delay4"
  /\ conexiones = 1
  /\ ~connected
  /\ Len(SelectSeq(trace, EsEtapa)) = 6

\* the positions of configurarWiFi
AsociandoPcs == {"wifi_poll", "wifi_delay"}

\* C14: configurarWiFi is left only by a poll that finds the network
\* associated; a poll that does not is followed by a delay of 500 ms and
\* the next poll, without a limit on their number; and while it runs the
\* session is not configured or connected, nothing is sampled and nothing is
\* published.
C14_StepPoll ==
  /\ pc \in AsociandoPcs /\ pc' \notin AsociandoPcs =>
       pc = "wifi_poll" /\ wifi /\ pc' = "cfg_mqtt"
  /\ pc = "wifi_poll" /\ ~wifi /\ pc' # pc => pc' = "wifi_delay" /\ waited' = 0
  /\ pc = "wifi_delay" /\ pc' # pc => pc' = "wifi_poll" /\ waited' = waited + 500
  /\ pc' \in AsociandoPcs => pc \in AsociandoPcs \cup {"setup"}

C14_BlocksUntilAssociated ==
  /\ [][C14_StepPoll]_vars
  /\ [](pc \in AsociandoPcs \cup {"setup"} =>
         /\ ~connected /\ ~subscribed /\ ~startupDone /\ conexiones = 0
         /\ trace = <<>> /\ pubs = <<>> /\ stream = NoStreams /\ acc = Ceros)
  /\ [](pc = "wifi_poll" => waited \in {0, 500})

\* a poll that follows a delay of 500 ms, the network still not associated
C14_Witness ==
  /\ pc = "wifi_poll"
  /\ ~wifi
  /\ waited = 500

\* the positions inside callbackMQTT
CbPcs == {"callback", "cb_delay"}

\* C15: the indicator is written by a digitalWrite of callbackMQTT and by
\* nothing else; callbackMQTT is entered from the pump call only, and an
\* iteration makes one pump call; the connection check, reconectarMQTT, the
\* readers and the delays leave the indicator as it is.
C15_StepIndicator ==
  /\ led' # led => pc = "callback" /\ cb # <<>> /\ Head(cb).op = "digitalWrite"
  /\ pc' \in CbPcs /\ pc \notin CbPcs => pc = "pump"
  /\ pc \in {"loop"} \cup RecPcs \cup ReaderPcs \cup AsociandoPcs => led' = led

C15_OnlyCallbackWrites ==
  /\ [][C15_StepIndicator]_vars
  /\ [](cb # <<>> \/ call # NoCall => pc \in CbPcs)
  /\ [](Cuenta(Ev("loop", "")) <= 1)
  /\ [](pc \in CbPcs \cup ReaderPcs => Cuenta(Ev("loop", "")) = 1)

\* callbackMQTT has switched off an indicator that was on
C15_Witness ==
  /\ pc = "callback"
  /\ call.before = "HIGH"
  /\ led = "LOW"
  /\ Cuenta(Ev("loop", "")) = 1

\* the positions of setup()
SetupPcs == {"setup", "wifi_poll", "wifi_delay", "cfg_mqtt"}
\* the positions of the connect loop of reconectarMQTT outside a round
ReintentoPcs == {"rec_while", "rec_connect", "rec_backoff"}

\* C16: once setup has returned the program never polls or starts the
\* association again, and no step of the program changes the association;
\* the connection check reads the session status only; and as long as the
\* network stays lost, reconectarMQTT stays in its connect loop: every
\* attempt fails and is followed by one backoff and the next attempt, and
\* nothing is sampled or published.
C16_StepNoReassociation ==
  /\ pc \notin SetupPcs => pc' \notin SetupPcs
  /\ pc' # pc => wifi' = wifi
  /\ pc = "loop" /\ pc' # pc => pc' = IF connected THEN "pump" ELSE "rec_while"
  /\ pc \in ReintentoPcs /\ ~connected /\ ~wifi /\ ~wifi' =>
       /\ pc' \in ReintentoPcs /\ ~connected'
       /\ UNCHANGED << trace, pubs, stream, acc, led >>
  /\ pc = "rec_connect" /\ ~wifi /\ pc' # pc => pc' = "rec_backoff"
  /\ pc = "rec_backoff" /\ pc' # pc => pc' = "rec_while" /\ waited' = waited + 5000
  /\ pc = "rec_while" /\ ~connected /\ pc' # pc => pc' = "rec_connect"

C16_NoReassociation == [][C16_StepNoReassociation]_vars

\* a third connect attempt in a row without the network, in a run that had a
\* session before
C16_Witness ==
  /\ pc = "rec_connect"
  /\ ~wifi
  /\ ~connected
  /\ startupDone
  /\ fails >= 2

\* C17: reconectarMQTT returns from its loop condition and only when that
\* reads the session as connected; and while it runs no reader has started
\* or published, the pump has not been called in this iteration, no
\* callbackMQTT runs and the indicator is not written.
C17_StepReturn ==
  /\ pc \in RecPcs /\ pc' \notin RecPcs =>
       pc = "rec_while" /\ connected /\ connected' /\ pc' = "pump"
  /\ pc \in RecPcs => led' = led /\ UNCHANGED << cbv, i, acc, stream, pubs >>

C17_ReturnsConnected ==
  /\ [][C17_StepReturn]_vars
  /\ [](pc \in RecPcs =>
         /\ \A p \in 1..Len(trace) : ~EsPaso(trace[p])
         /\ pubs = <<>> /\ stream = NoStreams /\ acc = Ceros /\ i = 0
         /\ cb = <<>> /\ call = NoCall)

\* reconectarMQTT has returned with the session up, after a session that was
\* lost during the test messages and a second connect
C17_Witness ==
  /\ pc = "pump"
  /\ connected
  /\ conexiones = 2
  /\ trace[Len(trace)] = RondaEsperada[Len(RondaEsperada)]

\* C18: a reader keeps nothing from an earlier pass: it starts with its
\* accumulators at zero and its index at 0, during its sampling loop each
\* accumulator is the sum of the valid samples this pass has taken so far,
\* and it publishes only after the tenth sample, no sooner and no later.
C18_StepFreshPass ==
  /\ pc' \in {"dist_sample", "dht_sample", "ow_sample"} /\ pc' # pc =>
       acc' = Ceros /\ i' = 0 /\ pubs' = <<>>
  /\ Len(pubs') > Len(pubs) /\ pc # "dht_pub" => i = 10
  /\ pc = "dht_sample" /\ pc' # pc => i = 10
  /\ i' # i /\ i' # 0 => i' = i + 1

C18_FreshPass ==
  /\ [][C18_StepFreshPass]_vars
  /\ [](i <= 10)
  /\ [](pc = "dist_sample" =>
         acc = [Ceros EXCEPT !.d = F(SumaEcos(stream.d, i) * 17150)])
  /\ [](pc = "dht_sample" =>
         acc = [Ceros EXCEPT !.t1 = F(SumaValidas(stream.t1, i)),
                             !.h1 = F(SumaValidas(stream.h1, i)),
                             !.t2 = F(SumaValidas(stream.t2, i)),
                             !.h2 = F(SumaValidas(stream.h2, i))])
  /\ [](pc = "ow_sample" =>
         acc = [Ceros EXCEPT !.t = F(SumaValidas(stream.t, i))])

\* the tenth one-wire sample of an iteration that is not the first
C18_Witness ==
  /\ pc = "ow_sample"
  /\ i = 10
  /\ startupDone
  /\ conexiones = 0
  /\ acc.t = F(SumaValidas(stream.t, 10))
  /\ acc.t # F(0)

\* C19 (as claimed): whenever loop() is at its pump call or in a reader and
\* the session is established, the session holds the subscription to the
\* control channel.
C19_SubscribedWhenUp ==
  pc \in PumpPcs \cup ReaderPcs /\ connected => subscribed

\* the running reader has just attempted a publish to the channel
Intento(ch) == pubs # <<>> /\ pubs[Len(pubs)].ch = ch

\* the association eventually succeeds: configurarWiFi is eventually left
AsociacionLograda == <>[](pc \notin {"setup", "wifi_poll", "wifi_delay"})
\* connect attempts that are repeated eventually succeed
ConexionLograda == []<>(pc = "rec_connect") => []<>(pc = "rec_sub")
\* sessions that are established again and again eventually last until the
\* loop condition of reconectarMQTT reads them
SesionDuradera == []<>(pc = "rec_sub") => []<>(pc = "pump")

\* loop() is iterated, the pump is called and each of the six periodic
\* channels has a publish attempt, all infinitely often
Progreso ==
  /\ []<>(pc = "loop")
  /\ []<>(pc = "pump")
  /\ []<>Intento("EIE_SEDE1_http/numeric")
  /\ []<>Intento("EIE_SEDE1_http/temp")
  /\ []<>Intento("EIE_SEDE1_http/humidity")
  /\ []<>Intento("EIE_SEDE2_http/temp")
  /\ []<>Intento("EIE_SEDE2_http/humidity")
  /\ []<>Intento("EIE_SEDE1_modbus/1/holding/0")

\* C20 (as claimed): if the association eventually succeeds and repeated
\* connect attempts eventually succeed, then every iteration of loop() ends,
\* the pump is called infinitely often and each of the six periodic channels
\* has a publish attempt infinitely often, whatever commands are received.
C20_Liveness == AsociacionLograda /\ ConexionLograda => Progreso

\* C20 (amended): the same under the further assumption that sessions
\* established again and again are not all lost before the loop condition
\* of reconectarMQTT reads them.
C20_LivenessStableSession ==
  AsociacionLograda /\ ConexionLograda /\ SesionDuradera => Progreso

\* a second "false" in a row is being handled: the indicator was LOW already
\* and callbackMQTT blocks again
C20_Witness ==
  /\ pc = "cb_delay"
  /\ call.payload = S_false
  /\ call.before = "LOW"
  /\ startupDone

====
